---------------------------- MODULE Spec2Model ----------------------------
(***************************************************************************)
(* Model of src/app.py: the SupportBee ticket exporter.                    *)
(*                                                                         *)
(*   fetch_all_tickets  paginated retrieval of tickets                     *)
(*   fetch_replies      retrieval of one ticket's replies                  *)
(*   safe_get           nested lookup with a default                       *)
(*   create_csv         per-ticket row construction and metrics            *)
(*   main               fetch tickets, attach replies, build the CSV       *)
(*                                                                         *)
(* JSON values are tagged records: None, Bool(b), Num(n), Str(s), List(q)  *)
(* and Dict(f), where f is a function from key strings to JSON values.  A  *)
(* key that a dict does not hold is a key outside DOMAIN f.                *)
(***************************************************************************)
EXTENDS Integers, Sequences, FiniteSets, TLC

VARIABLES
    \* main / fetch_all_tickets / fetch_replies
    main_pc,            \* position in main
    source,             \* the upstream API: page number -> response
    page,               \* fetch_all_tickets: page
    all_tickets,        \* fetch_all_tickets: all_tickets, then main's tickets
    requested,          \* pages requested so far, in request order
    failed_ids,         \* ticket ids whose reply fetch returned non-200
    st_errors,          \* messages passed to st.error, in order
    tk,                 \* main: number of tickets whose replies were fetched
    \* create_csv
    csv_pc,             \* position in create_csv
    csv_tickets,        \* create_csv: the tickets argument
    ti,                 \* index of the ticket of the current iteration
    output,             \* lines written to the StringIO: header, then rows
    date,
    labels_str,
    ticket_description,
    assigned_agent_name,
    all_replies,        \* the transcript entries, in sorted order
    sorted_replies,     \* sorted(replies, key=created_at) of the metrics pass
    ri,                 \* number of replies the metrics pass has processed
    ticket_created_at,
    first_agent_reply_time,
    response_times,
    previous_message_time,
    is_agent_trace,     \* per processed reply: is_agent of line 130-135, or "not computed"
    row_data,
    exception           \* the exception that ended create_csv and the line that raised it

main_vars == <<main_pc, source, page, all_tickets, requested, failed_ids, st_errors, tk>>

csv_locals == <<date, labels_str, ticket_description, assigned_agent_name,
                all_replies, sorted_replies, ri, ticket_created_at,
                first_agent_reply_time, response_times, previous_message_time,
                is_agent_trace, row_data>>

csv_vars == <<csv_pc, csv_tickets, ti, output, csv_locals, exception>>

vars == <<main_vars, csv_vars>>

-----------------------------------------------------------------------------
(* JSON values                                                             *)

None == [t |-> "None"]

Bool(b) == [t |-> "bool", v |-> b]

Num(n) == [t |-> "int", v |-> n]

Str(s) == [t |-> "str", v |-> s]

List(q) == [t |-> "list", v |-> q]

Dict(f) == [t |-> "dict", v |-> f]

EmptyDict == Dict([k \in {} |-> None])

\* Python truthiness of a JSON value.
Truthy(x) ==
    CASE x.t = "None" -> FALSE
      [] x.t = "bool" -> x.v
      [] x.t = "int"  -> x.v # 0
      [] x.t = "str"  -> x.v # ""
      [] x.t = "list" -> x.v # <<>>
      [] x.t = "dict" -> DOMAIN x.v # {}

\* d.get(key, default) of a dict d.
dict_get(d, key, default) == IF key \in DOMAIN d.v THEN d.v[key] ELSE default

RECURSIVE safe_get_walk(_, _, _)
safe_get_walk(dictionary, keys, default) ==
    IF keys = <<>>
    THEN IF dictionary.t = "dict" /\ DOMAIN dictionary.v = {}
         THEN default ELSE dictionary
    ELSE IF dictionary.t = "dict"
         THEN safe_get_walk(dict_get(dictionary, Head(keys), EmptyDict), Tail(keys), default)
         ELSE default

safe_get(dictionary, keys, default) == safe_get_walk(dictionary, keys, default)

-----------------------------------------------------------------------------
(* Timestamp strings.  The strings of the model and, for each, the         *)
(* characters that decide its place in Python's string order: character 1, *)
(* the date/time separator and the two hour digits (every other character  *)
(* is the same in all of them), as code points.                            *)

ISO08 == "2024-01-01T08:00:00Z"
ISO09 == "2024-01-01T09:00:00Z"
ISO10 == "2024-01-01T10:00:00Z"
ISO11 == "2024-01-01T11:00:00Z"
LOOSE09 == "2024-01-01 09:00:00"
GARBAGE == "not-a-date"

ord(s) ==
    CASE s = ""      -> <<>>
      [] s = ISO08   -> <<50, 84, 48, 56>>
      [] s = ISO09   -> <<50, 84, 48, 57>>
      [] s = ISO10   -> <<50, 84, 49, 48>>
      [] s = ISO11   -> <<50, 84, 49, 49>>
      [] s = LOOSE09 -> <<50, 32, 48, 57>>
      [] s = GARBAGE -> <<110>>

\* a < b in Python's order of strings, on their code points.
RECURSIVE seq_less(_, _)
seq_less(a, b) ==
    IF b = <<>> THEN FALSE
    ELSE IF a = <<>> THEN TRUE
    ELSE IF Head(a) # Head(b) THEN Head(a) < Head(b)
    ELSE seq_less(Tail(a), Tail(b))

str_less(a, b) == seq_less(ord(a), ord(b))

\* datetime.strptime(s, '%Y-%m-%dT%H:%M:%SZ'): the strict format only.
strptime(s) ==
    CASE s = ISO08 -> [ok |-> TRUE, hour |-> 8]
      [] s = ISO09 -> [ok |-> TRUE, hour |-> 9]
      [] s = ISO10 -> [ok |-> TRUE, hour |-> 10]
      [] s = ISO11 -> [ok |-> TRUE, hour |-> 11]
      [] OTHER     -> [ok |-> FALSE]

\* dateutil's parser.parse(s): the strict format and the looser ones; it
\* raises on the empty string and on text that is no date.
parser_parse(s) ==
    CASE s = ISO08   -> [ok |-> TRUE, hour |-> 8]
      [] s = ISO09   -> [ok |-> TRUE, hour |-> 9]
      [] s = ISO10   -> [ok |-> TRUE, hour |-> 10]
      [] s = ISO11   -> [ok |-> TRUE, hour |-> 11]
      [] s = LOOSE09 -> [ok |-> TRUE, hour |-> 9]
      [] OTHER       -> [ok |-> FALSE]

\* strftime('%m-%d-%Y'): the hour is dropped; every date of the model is 2024-01-01.
strftime_mdY(dt) == "01-01-2024"

\* A parsed instant (a datetime): whole hours of 2024-01-01.
DateTime(h) == [t |-> "datetime", hour |-> h]

\* (a - b).total_seconds() / 3600
hours_between(a, b) == a.hour - b.hour

-----------------------------------------------------------------------------
(* create_csv: the pieces of one iteration                                 *)

fieldnames == <<"ticket_id", "date", "labels", "ticket_description",
                "assigned_agent_name", "first_response_time",
                "average_response_time", "replies">>

Range(q) == {q[i] : i \in 1..Len(q)}

\* Lines 85-89: the date column, or the exception that leaves create_csv.
date_column(ticket) ==
    LET date_str == dict_get(ticket, "last_activity_at", Str(""))
    IN  IF ~Truthy(date_str)
        THEN [raised |-> FALSE, value |-> "N/A"]
        ELSE IF strptime(date_str.v).ok
        THEN [raised |-> FALSE, value |-> strftime_mdY(strptime(date_str.v))]
        ELSE \* except Exception: the tolerant parse, outside any try
             IF parser_parse(date_str.v).ok
             THEN [raised |-> FALSE, value |-> strftime_mdY(parser_parse(date_str.v))]
             ELSE [raised |-> TRUE, value |-> "ParserError"]

\* Lines 91-92: the label names, in order (', '.join of them).
labels_column(ticket) ==
    LET labels == dict_get(ticket, "labels", List(<<>>)).v
    IN  [i \in 1..Len(labels) |-> dict_get(labels[i], "name", Str(""))]

\* Lines 97-99.
assignee_column(ticket) ==
    LET user_name == safe_get(ticket, <<"current_user_asignee", "name">>, Str(""))
    IN  IF ~Truthy(user_name)
        THEN safe_get(ticket, <<"current_team_asignee", "name">>, Str("Unassigned"))
        ELSE user_name

\* sorted(replies, key=lambda x: x.get('created_at', '')): a stable sort.
sort_key(reply) == dict_get(reply, "created_at", Str("")).v

RECURSIVE insert_sorted(_, _)
insert_sorted(q, reply) ==
    IF q = <<>> THEN <<reply>>
    ELSE IF str_less(sort_key(reply), sort_key(q[Len(q)]))
         THEN Append(insert_sorted(SubSeq(q, 1, Len(q) - 1), reply), q[Len(q)])
         ELSE Append(q, reply)

RECURSIVE sorted_by_created_at(_)
sorted_by_created_at(replies) ==
    IF replies = <<>> THEN <<>>
    ELSE insert_sorted(sorted_by_created_at(SubSeq(replies, 1, Len(replies) - 1)),
                       replies[Len(replies)])

\* Lines 105-111: is_agent of the transcript pass.
is_agent_transcript(reply) ==
    IF Truthy(dict_get(reply, "agent", None))
    THEN TRUE
    ELSE IF "replier" \in DOMAIN reply.v /\ Truthy(reply.v["replier"])
         THEN Truthy(dict_get(reply.v["replier"], "agent", None))
         ELSE FALSE

\* Lines 104-115: the transcript entries ("\n".join of "<type>: <text>").
transcript(replies) ==
    LET q == sorted_by_created_at(replies)
    IN  [i \in 1..Len(q) |->
            [reply_type |-> IF is_agent_transcript(q[i]) THEN "Agent" ELSE "Customer",
             reply_text |-> safe_get(q[i], <<"content", "text">>, Str(""))]]

\* A variant of is_agent_metrics that reads the top-level flag alone.
is_agent_metrics_top_only(reply) ==
    Truthy(dict_get(reply, "agent", None))

\* Lines 130-135: is_agent of the metrics pass.
is_agent_metrics(reply) ==
    IF Truthy(dict_get(reply, "agent", None))
    THEN TRUE
    ELSE IF "replier" \in DOMAIN reply.v /\ Truthy(reply.v["replier"])
         THEN Truthy(dict_get(reply.v["replier"], "agent", None))
         ELSE FALSE

\* Lines 125-126, and 118-119: the parsed created_at, None, or a raise.
parse_created_at(x) ==
    LET created_at_str == dict_get(x, "created_at", Str(""))
    IN  IF ~Truthy(created_at_str)
        THEN [raised |-> FALSE, value |-> None]
        ELSE IF parser_parse(created_at_str.v).ok
        THEN [raised |-> FALSE, value |-> DateTime(parser_parse(created_at_str.v).hour)]
        ELSE [raised |-> TRUE, value |-> None]

\* A variant of metrics_body that measures from the previous agent reply:
\* previous_message_time advances on agent replies alone.
metrics_body_agent_anchor(m, reply, reply_created_at) ==
    IF reply_created_at # None /\ m.previous_message_time # None
    THEN LET time_diff == hours_between(reply_created_at, m.previous_message_time)
             is_agent == is_agent_metrics(reply)
         IN  [previous_message_time |->
                  IF is_agent THEN reply_created_at ELSE m.previous_message_time,
              response_times |->
                  IF is_agent THEN Append(m.response_times, time_diff)
                  ELSE m.response_times,
              first_agent_reply_time |->
                  IF is_agent /\ m.first_agent_reply_time = None
                  THEN reply_created_at ELSE m.first_agent_reply_time,
              is_agent |-> IF is_agent THEN "Agent" ELSE "Customer"]
    ELSE [previous_message_time |-> m.previous_message_time,
          response_times |-> m.response_times,
          first_agent_reply_time |-> m.first_agent_reply_time,
          is_agent |-> "not computed"]

\* A variant of metrics_body without line 140: previous_message_time stays
\* the ticket's creation.
metrics_body_stale(m, reply, reply_created_at) ==
    IF reply_created_at # None /\ m.previous_message_time # None
    THEN LET time_diff == hours_between(reply_created_at, m.previous_message_time)
             is_agent == is_agent_metrics(reply)
         IN  [previous_message_time |-> m.previous_message_time,
              response_times |->
                  IF is_agent THEN Append(m.response_times, time_diff)
                  ELSE m.response_times,
              first_agent_reply_time |->
                  IF is_agent /\ m.first_agent_reply_time = None
                  THEN reply_created_at ELSE m.first_agent_reply_time,
              is_agent |-> IF is_agent THEN "Agent" ELSE "Customer"]
    ELSE [previous_message_time |-> m.previous_message_time,
          response_times |-> m.response_times,
          first_agent_reply_time |-> m.first_agent_reply_time,
          is_agent |-> "not computed"]

\* A variant of metrics_body with lines 138-139 outside the test of line
\* 136: the first reply of either role sets first_agent_reply_time.
metrics_body_first_any(m, reply, reply_created_at) ==
    IF reply_created_at # None /\ m.previous_message_time # None
    THEN LET time_diff == hours_between(reply_created_at, m.previous_message_time)
             is_agent == is_agent_metrics(reply)
         IN  [previous_message_time |-> reply_created_at,
              response_times |->
                  IF is_agent THEN Append(m.response_times, time_diff)
                  ELSE m.response_times,
              first_agent_reply_time |->
                  IF m.first_agent_reply_time = None
                  THEN reply_created_at ELSE m.first_agent_reply_time,
              is_agent |-> IF is_agent THEN "Agent" ELSE "Customer"]
    ELSE [previous_message_time |-> m.previous_message_time,
          response_times |-> m.response_times,
          first_agent_reply_time |-> m.first_agent_reply_time,
          is_agent |-> "not computed"]

\* Lines 128-140: one iteration of the metrics pass on a reply whose
\* created_at parsed to reply_created_at (a datetime or None).
metrics_body(m, reply, reply_created_at) ==
    IF reply_created_at # None /\ m.previous_message_time # None
    THEN LET time_diff == hours_between(reply_created_at, m.previous_message_time)
             is_agent == is_agent_metrics(reply)
         IN  [previous_message_time |-> reply_created_at,
              response_times |->
                  IF is_agent THEN Append(m.response_times, time_diff)
                  ELSE m.response_times,
              first_agent_reply_time |->
                  IF is_agent /\ m.first_agent_reply_time = None
                  THEN reply_created_at ELSE m.first_agent_reply_time,
              is_agent |-> IF is_agent THEN "Agent" ELSE "Customer"]
    ELSE [previous_message_time |-> m.previous_message_time,
          response_times |-> m.response_times,
          first_agent_reply_time |-> m.first_agent_reply_time,
          is_agent |-> "not computed"]

RECURSIVE sum(_)
sum(q) == IF q = <<>> THEN 0 ELSE Head(q) + sum(Tail(q))

\* A float that is a ratio of whole hours.
Float(num, den) == [t |-> "float", num |-> num, den |-> den]

\* Line 142.
first_response_time_of(created, first) ==
    IF created # None /\ first # None
    THEN Float(hours_between(first, created), 1)
    ELSE None

\* Line 143.
average_response_time_of(times) ==
    IF times # <<>> THEN Float(sum(times), Len(times)) ELSE None

\* csv.DictWriter.writerow with extrasaction='raise': the keys of the row
\* that are no field names.
wrong_fields(row) == DOMAIN row \ Range(fieldnames)

-----------------------------------------------------------------------------
(* create_csv: the loop over the tickets                                   *)

current_ticket == csv_tickets[ti]

\* An exception of the given type, raised by the given line of create_csv.
Raised(type, line) == [type |-> type, line |-> line]

\* Lines 83-122: the loop head; then, for the ticket of this iteration, the
\* row's text columns, the transcript and the start of the metrics pass.
\* With no ticket left, line 158 returns the output.
ForTicket ==
    /\ csv_pc = "for_ticket"
    /\ IF ti > Len(csv_tickets)
       THEN /\ csv_pc' = "returned"
            /\ UNCHANGED <<csv_locals, exception>>
       ELSE LET ticket == current_ticket
                d == date_column(ticket)
                replies == dict_get(ticket, "replies", List(<<>>)).v
                created == parse_created_at(ticket)
            IN  IF d.raised
                THEN /\ csv_pc' = "raised"
                     /\ exception' = Raised(d.value, 89)
                     /\ UNCHANGED csv_locals
                ELSE /\ date' = d.value
                     /\ labels_str' = labels_column(ticket)
                     /\ ticket_description' =
                            safe_get(ticket, <<"content", "text">>, Str("No description"))
                     /\ assigned_agent_name' = assignee_column(ticket)
                     /\ all_replies' = transcript(replies)
                     /\ IF created.raised
                        THEN /\ csv_pc' = "raised"
                             /\ exception' = Raised("ParserError", 119)
                             /\ UNCHANGED <<sorted_replies, ri, ticket_created_at,
                                            first_agent_reply_time, response_times,
                                            previous_message_time, is_agent_trace>>
                        ELSE /\ csv_pc' = "metrics"
                             /\ ticket_created_at' = created.value
                             /\ first_agent_reply_time' = None
                             /\ response_times' = <<>>
                             /\ previous_message_time' = created.value
                             /\ sorted_replies' = sorted_by_created_at(replies)
                             /\ ri' = 0
                             /\ is_agent_trace' = <<>>
                             /\ UNCHANGED exception
                     /\ UNCHANGED row_data
    /\ UNCHANGED <<csv_tickets, ti, output, main_vars>>

\* Lines 124-140: one iteration of the metrics pass.
MetricsStep ==
    /\ csv_pc = "metrics"
    /\ ri < Len(sorted_replies)
    /\ LET reply == sorted_replies[ri + 1]
           parsed == parse_created_at(reply)
           m == metrics_body([previous_message_time |-> previous_message_time,
                              first_agent_reply_time |-> first_agent_reply_time,
                              response_times |-> response_times],
                             reply, parsed.value)
       IN  IF parsed.raised
           THEN /\ csv_pc' = "raised"
                /\ exception' = Raised("ParserError", 126)
                /\ UNCHANGED <<ri, first_agent_reply_time, response_times,
                               previous_message_time, is_agent_trace>>
           ELSE /\ ri' = ri + 1
                /\ previous_message_time' = m.previous_message_time
                /\ first_agent_reply_time' = m.first_agent_reply_time
                /\ response_times' = m.response_times
                /\ is_agent_trace' = Append(is_agent_trace, m.is_agent)
                /\ UNCHANGED <<csv_pc, exception>>
    /\ UNCHANGED <<csv_tickets, ti, output, date, labels_str, ticket_description,
                   assigned_agent_name, all_replies, sorted_replies,
                   ticket_created_at, row_data, main_vars>>

\* Lines 142-155: the two metrics and the row's dict.
BuildRow ==
    /\ csv_pc = "metrics"
    /\ ri = Len(sorted_replies)
    /\ row_data' =
           [ticket_id |-> dict_get(current_ticket, "id", Str("N/A")),
            date |-> date,
            labels |-> labels_str,
            ticket_description |-> ticket_description,
            assigned_agent_name |-> assigned_agent_name,
            first_response_time |->
                first_response_time_of(ticket_created_at, first_agent_reply_time),
            average_response_time |-> average_response_time_of(response_times),
            replies |-> all_replies,
            raw |-> current_ticket]
    /\ csv_pc' = "writerow"
    /\ UNCHANGED <<csv_tickets, ti, output, date, labels_str, ticket_description,
                   assigned_agent_name, all_replies, sorted_replies, ri,
                   ticket_created_at, first_agent_reply_time, response_times,
                   previous_message_time, is_agent_trace, exception, main_vars>>

\* Line 156: writer.writerow(row_data); DictWriter raises ValueError on a
\* key that is no field name, else writes the fields in header order.
WriteRow ==
    /\ csv_pc = "writerow"
    /\ IF wrong_fields(row_data) # {}
       THEN /\ csv_pc' = "raised"
            /\ exception' = Raised("ValueError", 156)
            /\ UNCHANGED <<ti, output>>
       ELSE /\ output' = Append(output, [i \in 1..Len(fieldnames) |-> row_data[fieldnames[i]]])
            /\ ti' = ti + 1
            /\ csv_pc' = "for_ticket"
            /\ UNCHANGED exception
    /\ UNCHANGED <<csv_tickets, csv_locals, main_vars>>

-----------------------------------------------------------------------------
(* fetch_all_tickets, fetch_replies and main                               *)

\* An HTTP response: its status code and its JSON body.
Response(status_code, json) == [status_code |-> status_code, json |-> json]

\* requests.get of a tickets page; past the pages of the model the API has
\* no ticket left.
get_page(p) ==
    IF p \in DOMAIN source THEN source[p]
    ELSE Response(200, Dict([tickets |-> List(<<>>)]))

\* A variant of next_page that steps over a page.
next_page_skip(p) == p + 2

\* Line 52.
next_page(p) == p + 1

\* Lines 26-52: one iteration of the loop of fetch_all_tickets; a break
\* reaches line 53 and hands all_tickets to main.
FetchPage ==
    /\ main_pc = "fetch_all_tickets"
    /\ LET response == get_page(page)
           tickets == dict_get(response.json, "tickets", List(<<>>))
       IN  /\ requested' = Append(requested, page)
           /\ IF response.status_code # 200
              THEN /\ st_errors' = Append(st_errors,
                          [what |-> "tickets", id |-> page, status_code |-> response.status_code])
                   /\ main_pc' = "fetched"
                   /\ UNCHANGED <<all_tickets, page>>
              ELSE IF ~Truthy(tickets)
              THEN /\ main_pc' = "fetched"
                   /\ UNCHANGED <<all_tickets, page, st_errors>>
              ELSE /\ all_tickets' = all_tickets \o tickets.v
                   /\ page' = next_page(page)
                   /\ UNCHANGED <<main_pc, st_errors>>
    /\ UNCHANGED <<source, failed_ids, tk, csv_vars>>

\* Lines 169-172: main receives the tickets; with none it warns and returns.
AfterFetch ==
    /\ main_pc = "fetched"
    /\ main_pc' = IF all_tickets = <<>> THEN "no_tickets" ELSE "fetch_replies"
    /\ UNCHANGED <<source, page, all_tickets, requested, failed_ids, st_errors, tk, csv_vars>>

\* A variant of fetch_replies that returns None, not [], on a failure.
fetch_replies_none(response) ==
    IF response.status_code # 200
    THEN None
    ELSE dict_get(response.json, "replies", List(<<>>))

\* Lines 59-64: what fetch_replies returns for a response.
fetch_replies(response) ==
    IF response.status_code # 200
    THEN List(<<>>)
    ELSE dict_get(response.json, "replies", List(<<>>))

\* ticket["replies"] = replies
with_replies(ticket, replies) ==
    Dict([k \in DOMAIN ticket.v \cup {"replies"} |->
            IF k = "replies" THEN replies ELSE ticket.v[k]])

\* The replies responses of the model: a failure, no reply, one agent reply.
ReplyResponses ==
    {Response(500, Dict([error |-> Str("server error")])),
     Response(200, Dict([replies |-> List(<<>>)])),
     Response(200, Dict([replies |->
         List(<<Dict([created_at |-> Str(ISO09), agent |-> Bool(TRUE)])>>)]))}

\* Lines 174-177: one iteration of main's loop over the tickets.
FetchReplies ==
    /\ main_pc = "fetch_replies"
    /\ tk < Len(all_tickets)
    /\ \E response \in ReplyResponses :
          LET ticket == all_tickets[tk + 1]
              ticket_id == dict_get(ticket, "id", None)
          IN  /\ all_tickets' = [all_tickets EXCEPT
                                    ![tk + 1] = with_replies(ticket, fetch_replies(response))]
              /\ IF response.status_code # 200
                 THEN /\ st_errors' = Append(st_errors,
                             [what |-> "replies", id |-> ticket_id,
                              status_code |-> response.status_code])
                      /\ failed_ids' = failed_ids \cup {ticket_id}
                 ELSE UNCHANGED <<st_errors, failed_ids>>
    /\ tk' = tk + 1
    /\ UNCHANGED <<main_pc, source, page, requested, csv_vars>>

\* Line 179: main calls create_csv(tickets); create_csv writes the header.
\* Lines 180-188 follow the return of create_csv.
CallCreateCsv ==
    /\ main_pc = "fetch_replies"
    /\ tk = Len(all_tickets)
    /\ main_pc' = "create_csv"
    /\ csv_pc' = "for_ticket"
    /\ csv_tickets' = all_tickets
    /\ ti' = 1
    /\ output' = <<fieldnames>>
    /\ UNCHANGED <<source, page, all_tickets, requested, failed_ids, st_errors, tk,
                   csv_locals, exception>>

-----------------------------------------------------------------------------
(* The inputs of the model                                                 *)

\* The most replies a ticket of the model has.
MaxReplies == 3

\* The pages of the upstream API the model distinguishes.
MaxPages == 3

\* A key left out of a dict.
Absent == [t |-> "absent"]

NoKeys == [k \in {} |-> None]

kv(key, x) == IF x = Absent THEN NoKeys ELSE key :> x

SeqsUpTo(S, n) == UNION {[1..k -> S] : k \in 0..n}

Reply(created_at, agent, replier) ==
    Dict(kv("created_at", created_at) @@ kv("agent", agent) @@ kv("replier", replier)
         @@ ("content" :> Dict([text |-> Str("hi")])))

Ticket(id, last_activity_at, created_at, user_assignee, team_assignee, replies, content, labels) ==
    Dict(("id" :> Num(id)) @@ kv("last_activity_at", last_activity_at)
         @@ kv("created_at", created_at)
         @@ kv("current_user_asignee", user_assignee)
         @@ kv("current_team_asignee", team_assignee)
         @@ kv("replies", replies) @@ kv("content", content) @@ kv("labels", labels))

\* Replies that differ in their time and in the top-level agent flag.
MetricReplies ==
    {Reply(Str(s), Bool(a), Absent) : s \in {"", ISO09, ISO10, ISO11}, a \in BOOLEAN}

\* Tickets whose replies come in any order, before or after the creation.
MetricTickets ==
    {Ticket(1, Str(ISO11), Str(c), Absent, Absent, List(q), Absent, Absent) :
        c \in {"", ISO08, ISO10}, q \in SeqsUpTo(MetricReplies, MaxReplies)}

\* The shapes of the two agent flags: the top-level one and replier.agent.
RoleShapes ==
    {<<Bool(TRUE), Absent>>,
     <<Bool(FALSE), Dict([agent |-> Bool(TRUE)])>>,
     <<Absent, Dict([agent |-> Bool(TRUE)])>>,
     <<Bool(FALSE), Dict([agent |-> Bool(FALSE)])>>,
     <<Absent, Dict([name |-> Str("Bob")])>>,
     <<Absent, None>>,
     <<Absent, EmptyDict>>,
     <<Absent, Absent>>}

RoleReplies ==
    {Reply(Str(ISO09), sh[1], sh[2]) : sh \in RoleShapes}
    \cup {Reply(Absent, Bool(TRUE), Absent), Reply(Absent, Absent, Absent)}

RoleTickets ==
    {Ticket(2, Str(ISO11), c, Absent, Absent, List(q), Absent, Absent) :
        c \in {Absent, Str(ISO08)}, q \in SeqsUpTo(RoleReplies, MaxReplies)}

\* Tickets that differ in the date, the assignees, the text columns, and in
\* timestamps that do not parse.
RowTickets ==
    {Ticket(3, d, Str(c), u, g, r, x[1], x[2]) :
        d \in {Absent, Str(""), Str(ISO10), Str(LOOSE09), Str(GARBAGE)},
        c \in {ISO08, GARBAGE},
        u \in {Absent, None, EmptyDict, Dict([name |-> Str("Ann")]), Dict([name |-> Str("")])},
        g \in {Absent, None, Dict([name |-> Str("Tier2")]), Dict([name |-> Str("")])},
        r \in {Absent, List(<<>>),
               List(<<Reply(Str(ISO09), Bool(TRUE), Absent)>>),
               List(<<Reply(Str(GARBAGE), Bool(TRUE), Absent)>>)},
        x \in {<<Absent, Absent>>,
               <<Dict([text |-> Str("hello")]),
                 List(<<Dict([name |-> Str("bug")]), Dict([name |-> Str("urgent")])>>)>>}}

\* The ticket of the upstream API with identifier id.
ApiTicket(id) ==
    Ticket(id, Str(ISO11), Str(ISO08), Absent, Dict([name |-> Str("Tier2")]),
           Absent, Dict([text |-> Str("hello")]), Absent)

TicketLists ==
    {<<>>}
    \cup {<<t>> : t \in MetricTickets \cup RoleTickets \cup RowTickets}
    \cup {<<ApiTicket(4), t>> : t \in {ApiTicket(5)}}

\* The tickets pages of the model: a failure, a body with no tickets key,
\* and pages of zero, one or two tickets, numbered by page and place.
PageResponses(p) ==
    {Response(500, Dict([error |-> Str("server error")])),
     Response(200, EmptyDict),
     Response(200, Dict([tickets |-> List(<<>>)])),
     Response(200, Dict([tickets |-> List(<<ApiTicket(10 * p + 1)>>)])),
     Response(200, Dict([tickets |-> List(<<ApiTicket(10 * p + 1), ApiTicket(10 * p + 2)>>)]))}

\* A page that ends the pagination.
ends_pagination(response) ==
    response.status_code # 200 \/ ~Truthy(dict_get(response.json, "tickets", List(<<>>)))

\* The upstream APIs of the model: page MaxPages, at the latest, ends the pagination.
Sources ==
    {src \in [1..MaxPages -> UNION {PageResponses(p) : p \in 1..MaxPages}] :
        /\ \A p \in 1..MaxPages : src[p] \in PageResponses(p)
        /\ ends_pagination(src[MaxPages])}

-----------------------------------------------------------------------------
(* The specifications                                                      *)

csv_locals_init ==
    /\ date = ""
    /\ labels_str = <<>>
    /\ ticket_description = None
    /\ assigned_agent_name = None
    /\ all_replies = <<>>
    /\ sorted_replies = <<>>
    /\ ri = 0
    /\ ticket_created_at = None
    /\ first_agent_reply_time = None
    /\ response_times = <<>>
    /\ previous_message_time = None
    /\ is_agent_trace = <<>>
    /\ row_data = NoKeys
    /\ exception = Raised("none", 0)

\* create_csv(tickets), called on a list of tickets, after line 81.
Init ==
    /\ main_pc = "none"
    /\ source = <<>>
    /\ page = 1
    /\ all_tickets = <<>>
    /\ requested = <<>>
    /\ failed_ids = {}
    /\ st_errors = <<>>
    /\ tk = 0
    /\ csv_pc = "for_ticket"
    /\ csv_tickets \in TicketLists
    /\ ti = 1
    /\ output = <<fieldnames>>
    /\ csv_locals_init

Next == ForTicket \/ MetricsStep \/ BuildRow \/ WriteRow

Spec == Init /\ [][Next]_vars

\* main, from the click on the button (line 167), against an upstream API.
MainInit ==
    /\ main_pc = "fetch_all_tickets"
    /\ source \in Sources
    /\ page = 1
    /\ all_tickets = <<>>
    /\ requested = <<>>
    /\ failed_ids = {}
    /\ st_errors = <<>>
    /\ tk = 0
    /\ csv_pc = "idle"
    /\ csv_tickets = <<>>
    /\ ti = 1
    /\ output = <<>>
    /\ csv_locals_init

MainNext ==
    \/ FetchPage \/ AfterFetch \/ FetchReplies \/ CallCreateCsv
    \/ ForTicket \/ MetricsStep \/ BuildRow \/ WriteRow

\* main runs in one thread, each call returning: a step that can be taken is taken.
MainSpec == MainInit /\ [][MainNext]_vars /\ WF_vars(MainNext)

-----------------------------------------------------------------------------
(* The properties: what they speak of                                      *)

\* The replies of a ticket, as create_csv receives them.
replies_of(ticket) == dict_get(ticket, "replies", List(<<>>)).v

\* A ticket or reply whose created_at is there and is a time.
has_time(x) ==
    /\ Truthy(dict_get(x, "created_at", Str("")))
    /\ parser_parse(dict_get(x, "created_at", Str("")).v).ok

time_of(x) == parser_parse(dict_get(x, "created_at", Str("")).v).hour

\* A reply is an agent's when its agent flag or its replier's agent flag is truthy.
agent_authored(reply) ==
    \/ Truthy(dict_get(reply, "agent", None))
    \/ LET replier == dict_get(reply, "replier", None)
       IN  replier.t = "dict" /\ Truthy(dict_get(replier, "agent", None))

\* The places of the replies q in order of time, replies of one time in
\* the order they came in.
chronological(q) ==
    CHOOSE f \in [1..Len(q) -> 1..Len(q)] :
        \A i, j \in 1..Len(q) :
            i < j => \/ time_of(q[f[i]]) < time_of(q[f[j]])
                     \/ time_of(q[f[i]]) = time_of(q[f[j]]) /\ f[i] < f[j]

RECURSIVE total(_, _)
total(f, S) == IF S = {} THEN 0 ELSE LET k == CHOOSE k \in S : TRUE
                                     IN  f[k] + total(f, S \ {k})

\* The ticket of this iteration got as far as the metrics pass.
in_metrics == csv_pc \in {"metrics", "writerow"} /\ ti <= Len(csv_tickets)

\* The row of the ticket of this iteration is built.
row_built == csv_pc = "writerow"

\* A metric of the row is null or a number that is not negative.
null_or_non_negative(x) == x = None \/ (x.t = "float" /\ x.num >= 0 /\ x.den > 0)

-----------------------------------------------------------------------------
(* The properties                                                          *)

\* C1: the row written for a ticket has exactly the columns of the header,
\* so create_csv does not fail in writerow, and when it returns the output
\* is the header and then one row per ticket, in the order of the tickets.
C1_RowHasHeaderColumns ==
    /\ row_built => DOMAIN row_data = Range(fieldnames)
    /\ exception.type # "ValueError"
    /\ csv_pc = "returned" =>
          /\ Len(output) = 1 + Len(csv_tickets)
          /\ \A i \in 1..Len(csv_tickets) :
                output[i + 1][1] = dict_get(csv_tickets[i], "id", Str("N/A"))

\* C2: with the creation time and every reply time there, the row's
\* average_response_time is the mean, over the agent replies, of the hours
\* since the message just before in order of time (the creation before the
\* first reply), and first_response_time the hours from the creation to
\* the first agent reply.
C2_AverageIsMeanOfAgentIntervals ==
    (/\ row_built
     /\ has_time(current_ticket)
     /\ \A i \in 1..Len(replies_of(current_ticket)) : has_time(replies_of(current_ticket)[i]))
    => LET q == replies_of(current_ticket)
           f == chronological(q)
           created == time_of(current_ticket)
           interval == [k \in 1..Len(q) |->
                           time_of(q[f[k]]) - (IF k = 1 THEN created ELSE time_of(q[f[k - 1]]))]
           agents == {k \in 1..Len(q) : agent_authored(q[f[k]])}
           first == CHOOSE k \in agents : \A l \in agents : k <= l
       IN  IF agents = {}
           THEN /\ row_data.average_response_time = None
                /\ row_data.first_response_time = None
           ELSE /\ row_data.average_response_time =
                       Float(total(interval, agents), Cardinality(agents))
                /\ row_data.first_response_time = Float(time_of(q[f[first]]) - created, 1)

\* C2's case: created 08:00, an agent at 09:00, a customer at 10:00 and an
\* agent at 11:00, delivered latest first: average 2/2 = 1.0, first 1.0.
C2_Witness ==
    /\ row_built
    /\ dict_get(current_ticket, "created_at", None) = Str(ISO08)
    /\ replies_of(current_ticket) = <<Reply(Str(ISO11), Bool(TRUE), Absent),
                                      Reply(Str(ISO10), Bool(FALSE), Absent),
                                      Reply(Str(ISO09), Bool(TRUE), Absent)>>
    /\ row_data.average_response_time = Float(2, 2)
    /\ row_data.first_response_time = Float(1, 1)

\* C3: the two metrics of a row are each null or a number that is not
\* negative, whatever the times of the replies.
C3_MetricsNonNegative ==
    row_built => /\ null_or_non_negative(row_data.first_response_time)
                 /\ null_or_non_negative(row_data.average_response_time)

\* C4: for every reply the metrics pass has processed, its role there is
\* its role in the transcript: a reply that adds an interval is "Agent" in
\* the transcript, a "Customer" of the transcript adds none, and a reply
\* is "Agent" exactly when one of its two agent flags is truthy.
C4_RolesAgree ==
    in_metrics =>
        /\ Len(all_replies) = Len(sorted_replies)
        /\ Len(response_times) = Cardinality({i \in 1..ri : is_agent_trace[i] = "Agent"})
        /\ \A i \in 1..ri :
              /\ is_agent_trace[i] = "Agent" => all_replies[i].reply_type = "Agent"
              /\ is_agent_trace[i] = "Customer" => all_replies[i].reply_type = "Customer"
        /\ \A i \in 1..Len(all_replies) :
              all_replies[i].reply_type = "Agent" <=> agent_authored(sorted_replies[i])

\* C4's case: a reply whose own flag is false and whose replier is an
\* agent has added an interval, and a customer's reply has added none.
C4_Witness ==
    /\ in_metrics
    /\ \E i, j \in 1..ri :
          /\ dict_get(sorted_replies[i], "agent", None) = Bool(FALSE)
          /\ is_agent_trace[i] = "Agent"
          /\ all_replies[i].reply_type = "Agent"
          /\ is_agent_trace[j] = "Customer"
          /\ all_replies[j].reply_type = "Customer"

\* The ticket of this iteration has been taken up by the loop of create_csv.
ticket_taken_up == csv_pc # "for_ticket" /\ ti <= Len(csv_tickets)

\* A last_activity_at that is text and that neither parse accepts.
unparseable_date(ticket) ==
    LET date_str == dict_get(ticket, "last_activity_at", Str(""))
    IN  /\ date_str.t = "str"
        /\ date_str.v # ""
        /\ ~strptime(date_str.v).ok
        /\ ~parser_parse(date_str.v).ok

\* C6: for a ticket whose last_activity_at neither parse accepts, the date
\* is the sentinel "N/A" and no exception leaves the date's lines.
C6_UnparseableDateGivesSentinel ==
    (ticket_taken_up /\ unparseable_date(current_ticket))
    => /\ date = "N/A"
       /\ ~(csv_pc = "raised" /\ exception.line = 89)

\* A name that is there and is not empty.
present_name(ticket, assignee) ==
    LET a == dict_get(ticket, assignee, None)
        name == IF a.t = "dict" THEN dict_get(a, "name", None) ELSE None
    IN  IF name.t = "str" /\ name.v # "" THEN name ELSE None

\* C7: assigned_agent_name is the user assignee's name when there and not
\* empty, else the team assignee's name when there and not empty, else
\* "Unassigned"; it is never the empty string.
C7_AssigneeResolution ==
    in_metrics =>
        /\ assigned_agent_name =
              IF present_name(current_ticket, "current_user_asignee") # None
              THEN present_name(current_ticket, "current_user_asignee")
              ELSE IF present_name(current_ticket, "current_team_asignee") # None
              THEN present_name(current_ticket, "current_team_asignee")
              ELSE Str("Unassigned")
        /\ assigned_agent_name # Str("")

\* The metrics pass processes the next reply, whose own time is there.
processes_timed_reply ==
    /\ csv_pc = "metrics"
    /\ ri < Len(sorted_replies)
    /\ ri' = ri + 1
    /\ has_time(sorted_replies[ri + 1])

\* C9, as stated: after the metrics pass has processed a reply whose own
\* time is there, previous_message_time is that reply's time, whatever it
\* was before, null too.
C9_PreviousAlwaysAdvances ==
    [][processes_timed_reply
       => previous_message_time' = DateTime(time_of(sorted_replies[ri + 1]))]_vars

\* C9, amended: after the metrics pass has processed a reply whose own time
\* is there, previous_message_time is that reply's time when it was a time
\* before, for an agent's reply and a customer's alike; when it was null
\* before, it stays null.
C9_PreviousAdvancesFromATime ==
    [][processes_timed_reply
       => IF previous_message_time # None
          THEN previous_message_time' = DateTime(time_of(sorted_replies[ri + 1]))
          ELSE previous_message_time' = None]_vars

\* C9's case: the pass has just processed a customer's reply with a time,
\* later than the creation, and previous_message_time is that time.
C9_Witness ==
    /\ csv_pc = "metrics"
    /\ ri >= 1
    /\ has_time(sorted_replies[ri])
    /\ ~agent_authored(sorted_replies[ri])
    /\ ticket_created_at # None
    /\ previous_message_time = DateTime(time_of(sorted_replies[ri]))
    /\ previous_message_time # ticket_created_at

\* C10: a row's first_response_time is null exactly when its
\* average_response_time is; both are numbers exactly when the ticket's
\* creation time is there and some agent reply has a time.
C10_MetricsNullTogether ==
    row_built =>
        LET q == replies_of(current_ticket)
            anchored == /\ has_time(current_ticket)
                        /\ \E i \in 1..Len(q) : agent_authored(q[i]) /\ has_time(q[i])
        IN  /\ row_data.first_response_time = None <=> row_data.average_response_time = None
            /\ row_data.first_response_time # None <=> anchored

\* C10's case: an agent reply with a time on a ticket with no creation
\* time: both metrics are null.
C10_Witness ==
    /\ row_built
    /\ ~has_time(current_ticket)
    /\ \E i \in 1..Len(replies_of(current_ticket)) :
          /\ agent_authored(replies_of(current_ticket)[i])
          /\ has_time(replies_of(current_ticket)[i])
    /\ row_data.first_response_time = None
    /\ row_data.average_response_time = None

\* The identifiers of a list of tickets, in order.
ids(tickets) == [i \in 1..Len(tickets) |-> dict_get(tickets[i], "id", None)]

\* The tickets of pages 1..n of the upstream API, in page order.
RECURSIVE pages_upto(_)
pages_upto(n) ==
    IF n = 0 THEN <<>>
    ELSE pages_upto(n - 1) \o dict_get(source[n].json, "tickets", List(<<>>)).v

\* The first page with no ticket or with a status that is not 200.
stop_page ==
    CHOOSE p \in 1..MaxPages :
        /\ ends_pagination(source[p])
        /\ \A q \in 1..(p - 1) : ~ends_pagination(source[q])

\* C5: a failed fetch of one ticket's replies is reported and leaves that
\* ticket with an empty list of replies; the loop goes on to every ticket
\* left, and create_csv receives every fetched ticket, the failed ones too.
C5_FailedFetchKeepsTicket ==
    main_pc \in {"fetch_replies", "create_csv"} =>
        /\ \A i \in 1..tk :
              /\ "replies" \in DOMAIN all_tickets[i].v
              /\ ids(all_tickets)[i] \in failed_ids =>
                    /\ all_tickets[i].v["replies"] = List(<<>>)
                    /\ \E e \in Range(st_errors) :
                          e.what = "replies" /\ e.id = ids(all_tickets)[i]
        /\ ids(all_tickets) = ids(pages_upto(stop_page - 1))
        /\ main_pc = "create_csv" =>
              /\ tk = Len(all_tickets)
              /\ csv_tickets = all_tickets

\* C5's case: the fetch failed for the first ticket, a later ticket has
\* its replies, and create_csv has been called with both.
C5_Witness ==
    /\ main_pc = "create_csv"
    /\ Len(csv_tickets) >= 2
    /\ ids(csv_tickets)[1] \in failed_ids
    /\ Truthy(csv_tickets[2].v["replies"])

\* The state of the pagination agrees with the upstream API.
pagination_in_order ==
    /\ requested = [i \in 1..Len(requested) |-> i]
    /\ Len(requested) <= stop_page
    /\ main_pc = "fetch_all_tickets" => all_tickets = pages_upto(Len(requested))
    /\ main_pc = "fetched" => all_tickets = pages_upto(stop_page - 1)
    /\ main_pc # "fetch_all_tickets" =>
          /\ Len(requested) = stop_page
          /\ ids(all_tickets) = ids(pages_upto(stop_page - 1))

\* C8: fetch_all_tickets requests pages 1, 2, 3, ... in order, stops at the
\* first page with no ticket or with a status that is not 200, returns the
\* tickets of the pages before it in page order, requests no page after
\* it, and ends.
C8_PaginationStopsAtFirstEmptyPage ==
    []pagination_in_order /\ <>(main_pc # "fetch_all_tickets")

\* C8's case: two pages of two tickets, then a page that stops the loop.
C8_Witness ==
    /\ main_pc = "fetched"
    /\ requested = <<1, 2, 3>>
    /\ Len(all_tickets) = 4

=============================================================================
